---- MODULE Spec2Model ----
(***************************************************************************)
(* A model of the documentation material of the repository:                *)
(*   - the "Check Broken Links" workflow (job condition, steps),           *)
(*   - the Novita chat-model notebook (kernel namespace, credentials cell),*)
(*   - the Kuzu graph notebook (kernel namespace, ingestion, QA chain).    *)
(* Each part has its own specification; the variables of the other parts   *)
(* stay at their initial values.                                           *)
(***************************************************************************)
EXTENDS Integers, Sequences, FiniteSets

VARIABLES wfRuns, wfRepo,
          nvPc, nvNames, nvEnv, nvEnv0, nvFirst, nvPrompts, nvCredRuns, nvStopped, nvReruns,
          kzPc, kzNames, kzStopped, kzGraphDocs, kzDb, kzSchema, kzChain,
          kzStage, kzQuestion, kzCypher, kzContext, kzAnswer, kzTrace, kzOut

wfVars == <<wfRuns, wfRepo>>

nvVars == <<nvPc, nvNames, nvEnv, nvEnv0, nvFirst, nvPrompts, nvCredRuns, nvStopped, nvReruns>>

kzKernel == <<kzPc, kzNames, kzStopped>>

kzData == <<kzGraphDocs, kzDb, kzSchema, kzChain>>

kzInvoke == <<kzStage, kzQuestion, kzCypher, kzContext, kzAnswer, kzTrace, kzOut>>

kzVars == <<kzKernel, kzData, kzInvoke>>

vars == <<wfVars, nvVars, kzVars>>

(***************************************************************************)
(* The "Check Broken Links" workflow                                       *)
(***************************************************************************)

\* Workflow runs that may exist at once (a slot per run).
MaxRuns == 2

Runs == 1..MaxRuns

\* The upstream organisation the job condition names, and a fork's owner.
Owners == {"langchain-ai", "jasonhp"}

\* on: workflow_dispatch / schedule
Events == {"workflow_dispatch", "schedule"}

\* The condition with `&&` written for `||`.
JobIfConj(owner, event) == owner = "langchain-ai" /\ event /= "schedule"

\* if: github.repository_owner == 'langchain-ai' || github.event_name != 'schedule'
JobIf(owner, event) == owner = "langchain-ai" \/ event /= "schedule"

\* A step's defaults: `if` is success() and continue-on-error is false when
\* the YAML gives neither key.
Step(name, cmd) == [name |-> name, cmd |-> cmd, cond |-> "success", continueOnError |-> FALSE]

\* The steps with continue-on-error set on the install step.
StepsMasked ==
    << Step("checkout", "actions/checkout@v4"),
       Step("Use Node.js 18.x", "actions/setup-node@v4"),
       [Step("Install dependencies", "yarn install --immutable --mode=skip-build")
           EXCEPT !.continueOnError = TRUE],
       Step("Check broken links", "yarn check-broken-links") >>

\* steps: of the check-links job, in document order.
Steps ==
    << Step("checkout", "actions/checkout@v4"),
       Step("Use Node.js 18.x", "actions/setup-node@v4"),
       Step("Install dependencies", "yarn install --immutable --mode=skip-build"),
       Step("Check broken links", "yarn check-broken-links") >>

NSteps == Len(Steps)

StepIds == 1..NSteps

Outcomes == {"success", "failure"}

\* The tracked files of the repository: the tree and, in it, docs/yarn.lock.
RepoAtStart == [tree |-> "tree-0", lock |-> "lock-0"]

\* The runner of a job before checkout: no copy of the repository.
NoWorkspace == [tree |-> "none", lock |-> "none"]

\* The token with contents: write.
PermissionsWrite == [contents |-> "write"]

\* permissions: contents: read (every other scope of the token is none).
Permissions == [contents |-> "read"]

\* yarn install --immutable
InstallImmutable == TRUE

\* The lockfile after `yarn install` in a workspace: when it is out of date
\* with package.json, yarn rewrites it unless --immutable is given.
LockAfterInstall(lock, stale, immutable) ==
    IF stale /\ ~immutable THEN "lock-rewritten" ELSE lock

\* With --immutable an out-of-date lockfile makes the install fail.
InstallMustFail(stale, immutable) == stale /\ immutable

\* A push with the job's token reaches the repository only when the token
\* may write contents.
RepoAfterPush(repo, pushed) ==
    IF Permissions.contents = "write" THEN pushed ELSE repo

NoRun ==
    [state |-> "none", owner |-> "none", event |-> "none", idx |-> 1,
     steps |-> [i \in StepIds |-> "pending"],
     ws |-> NoWorkspace, denied |-> FALSE, overlap |-> FALSE]

\* A failed step fails the job unless it continues on error.
StepFailsJob(st, i) == st[i] = "failure" /\ ~Steps[i].continueOnError

\* success(): no earlier step has failed the job.
JobOkBefore(st, i) == \A j \in 1..(i - 1) : ~StepFailsJob(st, j)

StepCondHolds(st, i) ==
    CASE Steps[i].cond = "success" -> JobOkBefore(st, i)
      [] Steps[i].cond = "always"  -> TRUE
      [] OTHER -> FALSE

JobConclusion(st) ==
    IF \E i \in StepIds : StepFailsJob(st, i) THEN "failure" ELSE "success"

\* An event of `on:` arrives in a repository; the job starts when its `if`
\* holds and is skipped otherwise.
Trigger(r, owner, event) ==
    /\ wfRuns[r].state = "none"
    /\ \A q \in 1..(r - 1) : wfRuns[q].state /= "none"
    /\ wfRuns' = [wfRuns EXCEPT ![r] =
          [NoRun EXCEPT !.owner = owner, !.event = event,
                        !.state = IF JobIf(owner, event) THEN "running" ELSE "skipped",
                        !.overlap = JobIf(owner, event)
                                    /\ \E q \in Runs : wfRuns[q].state = "running"]]
    /\ UNCHANGED <<wfRepo, nvVars, kzVars>>

\* The runner takes the next step of a running job: it runs it when its
\* condition holds (with the outcome the command produces) and skips it
\* otherwise; after the last step the job concludes. Checkout copies the
\* repository to the workspace; the install may find the lockfile out of
\* date (`stale`); the link-check script, whose text is not part of the
\* workflow, may try to push to the repository (`writes`).
RunStep(r, outcome, stale, writes) ==
    /\ wfRuns[r].state = "running"
    /\ LET i    == wfRuns[r].idx
           runs == StepCondHolds(wfRuns[r].steps, i)
           cmd  == Steps[i].cmd
           inst == runs /\ cmd = "yarn install --immutable --mode=skip-build"
           link == runs /\ cmd = "yarn check-broken-links"
           st   == [wfRuns[r].steps EXCEPT ![i] = IF runs THEN outcome ELSE "skipped"]
           ws   == wfRuns[r].ws
       IN /\ stale => inst
          /\ writes => link
          /\ (inst /\ InstallMustFail(stale, InstallImmutable)) => outcome = "failure"
          /\ wfRuns' = [wfRuns EXCEPT ![r] =
                [@ EXCEPT !.steps = st,
                          !.idx = IF i = NSteps THEN i ELSE i + 1,
                          !.state = IF i = NSteps THEN JobConclusion(st) ELSE "running",
                          !.ws = IF runs /\ cmd = "actions/checkout@v4" /\ outcome = "success"
                                 THEN wfRepo
                                 ELSE IF inst
                                      THEN [ws EXCEPT !.lock =
                                              LockAfterInstall(ws.lock, stale, InstallImmutable)]
                                      ELSE ws,
                          !.denied = @ \/ (writes /\ Permissions.contents /= "write")]]
          /\ wfRepo' = IF writes
                       THEN RepoAfterPush(wfRepo, [tree |-> "tree-pushed", lock |-> ws.lock])
                       ELSE wfRepo
    /\ UNCHANGED <<nvVars, kzVars>>

WfInit ==
    /\ wfRuns = [r \in Runs |-> NoRun]
    /\ wfRepo = RepoAtStart

WfNext ==
    \/ \E r \in Runs, o \in Owners, e \in Events : Trigger(r, o, e)
    \/ \E r \in Runs, out \in Outcomes, stale \in BOOLEAN, writes \in BOOLEAN :
          RunStep(r, out, stale, writes)

(***************************************************************************)
(* Notebook kernels: statements, names and the NameError rule              *)
(***************************************************************************)

\* Names every kernel has without an import.
Builtins == {"print"}

\* A statement of a code cell: the names it reads, the names it binds once
\* it has run, and what else it does.
Stmt(cell, reads, binds, effect) ==
    [cell |-> cell, reads |-> reads, binds |-> binds, effect |-> effect]

\* A statement runs when every name it reads is bound; otherwise it raises
\* NameError and the cell stops.
CanRun(stmt, names) == stmt.reads \subseteq (names \cup Builtins)

(***************************************************************************)
(* The Novita notebook                                                     *)
(***************************************************************************)

\* The code cells of the Novita notebook, statement by statement, in
\* document order (the commented-out LangSmith cell has no statement).
NovitaStmts ==
    << Stmt(1, {}, {"getpass"}, "none"),
       Stmt(1, {}, {"os"}, "none"),
       Stmt(1, {"os", "getpass"}, {}, "credentials"),
       Stmt(3, {}, {}, "pip"),
       Stmt(4, {}, {"ChatNovita"}, "none"),
       Stmt(4, {}, {"HumanMessage", "SystemMessage"}, "none"),
       Stmt(4, {"ChatNovita"}, {"llm"}, "none"),
       Stmt(5, {"SystemMessage", "HumanMessage"}, {"messages"}, "none"),
       Stmt(5, {"llm", "messages"}, {"ai_msg"}, "none"),
       Stmt(5, {"ai_msg"}, {}, "none"),
       Stmt(6, {"print", "ai_msg"}, {}, "none"),
       Stmt(7, {}, {"ChatPromptTemplate"}, "none"),
       Stmt(7, {"ChatPromptTemplate"}, {"prompt"}, "none"),
       Stmt(7, {"prompt", "llm"}, {"chain"}, "none"),
       Stmt(7, {"chain"}, {}, "none") >>

NvLen == Len(NovitaStmts)

\* NOVITA_API_KEY is not in os.environ.
Absent == "<absent>"

\* Values the variable may hold before the kernel starts, and values
\* getpass may return (the empty string included).
Keys == {"", "key-a", "key-b"}

\* Times the user runs the credentials cell again.
MaxReruns == 2

\* The assignment without the `if` around it.
CredentialsCellAlways(env, typed) == typed

\* if "NOVITA_API_KEY" not in os.environ:
\*     os.environ["NOVITA_API_KEY"] = getpass.getpass(...)
\* The value of the variable after the statement; `typed` is what getpass
\* returns if it is called.
CredentialsCell(env, typed) == IF env = Absent THEN typed ELSE env

\* getpass is called exactly when the `if` is taken.
CallsGetpass(env) == env = Absent

\* The kernel is between cells (no cell is half run).
NvAtCellBoundary ==
    IF nvPc = 1 \/ nvPc > NvLen
    THEN TRUE
    ELSE NovitaStmts[nvPc].cell /= NovitaStmts[nvPc - 1].cell

\* Run All: the next statement in document order runs.
NvRunStmt(typed) ==
    /\ ~nvStopped
    /\ nvPc <= NvLen
    /\ UNCHANGED <<wfVars, kzVars>>
    /\ LET s == NovitaStmts[nvPc] IN
       IF CanRun(s, nvNames)
       THEN /\ nvPc' = nvPc + 1
            /\ nvNames' = nvNames \cup s.binds
            /\ IF s.effect = "credentials"
               THEN /\ nvEnv' = CredentialsCell(nvEnv, typed)
                    /\ nvFirst' = nvEnv'
                    /\ nvPrompts' = nvPrompts + (IF CallsGetpass(nvEnv) THEN 1 ELSE 0)
                    /\ nvCredRuns' = nvCredRuns + 1
               ELSE /\ typed = ""
                    /\ UNCHANGED <<nvEnv, nvFirst, nvPrompts, nvCredRuns>>
            /\ UNCHANGED <<nvStopped, nvEnv0, nvReruns>>
       ELSE /\ typed = ""
            /\ nvStopped' = TRUE
            /\ UNCHANGED <<nvPc, nvNames, nvEnv, nvEnv0, nvFirst, nvPrompts, nvCredRuns, nvReruns>>

\* The user runs the credentials cell once more, after it has run.
NvRerunCredentials(typed) ==
    /\ ~nvStopped
    /\ nvCredRuns >= 1
    /\ NvAtCellBoundary
    /\ nvReruns < MaxReruns
    /\ nvReruns' = nvReruns + 1
    /\ nvNames' = nvNames \cup {"getpass", "os"}
    /\ nvEnv' = CredentialsCell(nvEnv, typed)
    /\ nvPrompts' = nvPrompts + (IF CallsGetpass(nvEnv) THEN 1 ELSE 0)
    /\ nvCredRuns' = nvCredRuns + 1
    /\ UNCHANGED <<nvPc, nvStopped, nvEnv0, nvFirst>>
    /\ UNCHANGED <<wfVars, kzVars>>

NvInit ==
    /\ nvPc = 1
    /\ nvNames = {}
    /\ nvEnv \in Keys \cup {Absent}
    /\ nvEnv0 = nvEnv
    /\ nvFirst = Absent
    /\ nvPrompts = 0
    /\ nvCredRuns = 0
    /\ nvStopped = FALSE
    /\ nvReruns = 0

NvNext ==
    \/ \E typed \in Keys : NvRunStmt(typed)
    \/ \E typed \in Keys : NvRerunCredentials(typed)

(***************************************************************************)
(* The Kuzu notebook: data of the cells                                    *)
(***************************************************************************)

\* A statement that carries an argument (the question of a chain.invoke).
KStmt(cell, reads, binds, effect, arg) ==
    [cell |-> cell, reads |-> reads, binds |-> binds, effect |-> effect, arg |-> arg]

QuestionCEO == "Who is the CEO of Apple?"

QuestionHQ == "Where is Apple headquartered?"

\* The code cells of the Kuzu notebook, statement by statement, in document
\* order. No cell binds OPENAI_API_KEY (both uses carry `noqa: F821`).
KuzuStmts ==
    << KStmt(1, {}, {"kuzu"}, "none", ""),
       KStmt(1, {"kuzu"}, {"db"}, "none", ""),
       KStmt(1, {"kuzu", "db"}, {"conn"}, "none", ""),
       KStmt(2, {}, {"KuzuGraph"}, "none", ""),
       KStmt(2, {"KuzuGraph", "db"}, {"graph"}, "none", ""),
       KStmt(3, {}, {"text"}, "none", ""),
       KStmt(4, {}, {"allowed_nodes"}, "none", ""),
       KStmt(4, {}, {"allowed_relationships"}, "none", ""),
       KStmt(5, {}, {"Document"}, "none", ""),
       KStmt(5, {}, {"LLMGraphTransformer"}, "none", ""),
       KStmt(5, {}, {"ChatOpenAI"}, "none", ""),
       KStmt(5, {"LLMGraphTransformer", "ChatOpenAI", "OPENAI_API_KEY",
                 "allowed_nodes", "allowed_relationships"},
                {"llm_transformer"}, "none", ""),
       KStmt(5, {"Document", "text"}, {"documents"}, "none", ""),
       KStmt(5, {"llm_transformer", "documents"}, {"graph_documents"}, "convert", ""),
       KStmt(6, {"graph_documents"}, {}, "none", ""),
       KStmt(7, {"graph", "graph_documents"}, {}, "ingest", ""),
       KStmt(8, {}, {"KuzuQAChain"}, "none", ""),
       KStmt(8, {"KuzuQAChain", "ChatOpenAI", "OPENAI_API_KEY", "graph"},
                {"chain"}, "chain_llm", ""),
       KStmt(9, {"chain"}, {}, "invoke", QuestionCEO),
       KStmt(10, {"chain"}, {}, "invoke", QuestionHQ),
       KStmt(11, {"graph"}, {}, "refresh", ""),
       KStmt(11, {"print", "graph"}, {}, "none", ""),
       KStmt(12, {"KuzuQAChain", "ChatOpenAI", "graph"}, {"chain"}, "chain_separate", ""),
       KStmt(13, {"chain"}, {}, "invoke", QuestionCEO) >>

KzLen == Len(KuzuStmts)

Range(seq) == {seq[i] : i \in 1..Len(seq)}

\* text = "..."
Text == "Tim Cook is the CEO of Apple. Apple has its headquarters in California."

\* Node(id=..., type=...) of a graph document.
Node(id, type) == [id |-> id, type |-> type]

\* Relationship(source=..., target=..., type=...) of a graph document.
Relationship(source, target, type) == [source |-> source, target |-> target, type |-> type]

\* The value of graph_documents the notebook shows.
GraphDocuments ==
    << [nodes |-> << Node("Tim Cook", "Person"), Node("Apple", "Company"),
                     Node("California", "Location") >>,
        relationships |->
            << Relationship(Node("Tim Cook", "Person"), Node("Apple", "Company"), "IS_CEO_OF"),
               Relationship(Node("Apple", "Company"), Node("California", "Location"),
                            "HAS_HEADQUARTERS_IN") >>,
        source |-> [page_content |-> Text]] >>

(***************************************************************************)
(* The graph database: ingestion, schema, pattern queries                  *)
(***************************************************************************)

\* A stored entity node, as a query returns it (the storage identifier
\* `_id` is left out).
EntityNode(n) == [label |-> n.type, id |-> n.id, type |-> "entity"]

\* The stored node of a source document (table Chunk: id, text, type). The
\* notebook shows no Chunk row; id and type stand for the stored values.
ChunkNode(doc) ==
    [label |-> "Chunk", id |-> "chunk:" \o doc.source.page_content,
     text |-> doc.source.page_content, type |-> "text_chunk"]

Edge(src, label, dst) == [src |-> src, label |-> label, dst |-> dst]

EmptyDb == [nodes |-> {}, rels |-> {}]

\* graph.add_graph_documents(docs, include_source): the entity nodes and
\* relationships of every document and, with include_source, a Chunk node
\* per document with a MENTIONS_Chunk_<Label> relationship to each entity.
AddGraphDocuments(db, docs, include_source) ==
    LET D == Range(docs)
        ents == UNION {{EntityNode(n) : n \in Range(d.nodes)} : d \in D}
        rels == UNION {{Edge(EntityNode(r.source), r.type, EntityNode(r.target))
                          : r \in Range(d.relationships)} : d \in D}
        chunks == IF include_source THEN {ChunkNode(d) : d \in D} ELSE {}
        mentions ==
            IF include_source
            THEN UNION {{Edge(ChunkNode(d), "MENTIONS_Chunk_" \o n.type, EntityNode(n))
                           : n \in Range(d.nodes)} : d \in D}
            ELSE {}
    IN [nodes |-> db.nodes \cup ents \cup chunks,
        rels  |-> db.rels \cup rels \cup mentions]

\* The "Relationships:" part of graph.get_schema after refresh_schema().
RefreshSchema(db) ==
    {"(:" \o r.src.label \o ")-[:" \o r.label \o "]->(:" \o r.dst.label \o ")" : r \in db.rels}

\* The schema the notebook prints.
PrintedSchema ==
    {"(:Company)-[:HAS_HEADQUARTERS_IN]->(:Location)",
     "(:Chunk)-[:MENTIONS_Chunk_Person]->(:Person)",
     "(:Chunk)-[:MENTIONS_Chunk_Location]->(:Location)",
     "(:Person)-[:IS_CEO_OF]->(:Company)",
     "(:Chunk)-[:MENTIONS_Chunk_Company]->(:Company)"}

\* No {id: ...} constraint on a node pattern.
Any == "<any>"

\* (var:Label {id: 'x'})
Pat(var, label, id) == [var |-> var, label |-> label, id |-> id]

\* MATCH (p:Person)-[:IS_CEO_OF]->(c:Company {id: 'Apple'}) RETURN p
CypherCEO ==
    [src |-> Pat("p", "Person", Any), rel |-> "IS_CEO_OF",
     dst |-> Pat("c", "Company", "Apple"), ret |-> "p", props |-> <<>>]

\* MATCH (c:Company {id: 'Apple'})-[:HAS_HEADQUARTERS_IN]->(l:Location) RETURN l
CypherHQ ==
    [src |-> Pat("c", "Company", "Apple"), rel |-> "HAS_HEADQUARTERS_IN",
     dst |-> Pat("l", "Location", Any), ret |-> "l", props |-> <<>>]

\* MATCH (p:Person)-[:IS_CEO_OF]->(c:Company {id: 'Apple'}) RETURN p.id, p.type
CypherCEOProps ==
    [src |-> Pat("p", "Person", Any), rel |-> "IS_CEO_OF",
     dst |-> Pat("c", "Company", "Apple"), ret |-> "p", props |-> <<"id", "type">>]

\* Statements the Cypher-generation model produced in the notebook.
GeneratedCyphers == {CypherCEO, CypherHQ, CypherCEOProps}

NodeMatches(n, pat) == n.label = pat.label /\ (pat.id = Any \/ n.id = pat.id)

\* The pattern read against the direction of the arrow.
EdgeMatchesReversed(e, q) ==
    e.label = q.rel /\ NodeMatches(e.dst, q.src) /\ NodeMatches(e.src, q.dst)

\* (a)-[:REL]->(b): the relationship has the type and both ends match.
EdgeMatches(e, q) == e.label = q.rel /\ NodeMatches(e.src, q.src) /\ NodeMatches(e.dst, q.dst)

\* RETURN v  or  RETURN v.prop, ...: one row of the result.
Row(q, n) ==
    IF q.props = <<>>
    THEN [cols |-> <<q.ret>>, vals |-> <<n>>]
    ELSE [cols |-> [i \in 1..Len(q.props) |-> q.ret \o "." \o q.props[i]],
          vals |-> [i \in 1..Len(q.props) |-> n[q.props[i]]]]

\* graph.query(cypher): the rows of the matches (the rows of the notebook's
\* queries are distinct, so a set holds them).
Query(db, q) ==
    {Row(q, IF q.ret = q.src.var THEN e.src ELSE e.dst) : e \in {e \in db.rels : EdgeMatches(e, q)}}

\* Full Context of the first invoke.
FullContextCEO ==
    {[cols |-> <<"p">>, vals |-> <<[label |-> "Person", id |-> "Tim Cook", type |-> "entity"]>>]}

\* Full Context of the second invoke.
FullContextHQ ==
    {[cols |-> <<"l">>, vals |-> <<[label |-> "Location", id |-> "California", type |-> "entity"]>>]}

\* Full Context of the invoke with separate LLMs.
FullContextCEOProps ==
    {[cols |-> <<"p.id", "p.type">>, vals |-> <<"Tim Cook", "entity">>]}

\* Answers the notebook's invokes returned.
Answers == {"Tim Cook is the CEO of Apple.", "Apple is headquartered in California."}

(***************************************************************************)
(* The Kuzu notebook: kernel and QA chain                                  *)
(***************************************************************************)

None == "<none>"

\* No statement generated yet, no value returned yet, no chain built yet.
NoCypher ==
    [src |-> Pat(None, None, None), rel |-> None, dst |-> Pat(None, None, None),
     ret |-> None, props |-> <<>>]

NoOut == [stmt |-> 0, value |-> [query |-> None, result |-> None]]

NoChain == [llm |-> None, cypher_llm |-> None, qa_llm |-> None]

\* The lines a verbose KuzuQAChain prints, in the order they appear.
TraceOrder ==
    << "Entering new KuzuQAChain chain...", "Generated Cypher:", "Full Context:",
       "Finished chain." >>

\* A returned value that does not carry the question.
InvokeResultNoEcho(question, answer) == [query |-> "", result |-> answer]

\* The value chain.invoke returns.
InvokeResult(question, answer) == [query |-> question, result |-> answer]

KzAtCellBoundary ==
    IF kzPc = 1 \/ kzPc > KzLen
    THEN TRUE
    ELSE KuzuStmts[kzPc].cell /= KuzuStmts[kzPc - 1].cell

\* KuzuQAChain.from_llm(...): the models the call names.
ChainOf(effect) ==
    IF effect = "chain_llm"
    THEN [llm |-> "gpt-4o-mini", cypher_llm |-> None, qa_llm |-> None]
    ELSE [llm |-> None, cypher_llm |-> "gpt-4o-mini", qa_llm |-> "gpt-4"]

\* Run All: the next statement in document order runs (a chain.invoke is
\* taken by the chain's own steps below).
KzRunStmt ==
    /\ ~kzStopped
    /\ kzPc <= KzLen
    /\ kzStage = "idle"
    /\ UNCHANGED <<wfVars, nvVars, kzInvoke>>
    /\ LET s == KuzuStmts[kzPc] IN
       IF ~CanRun(s, kzNames)
       THEN /\ kzStopped' = TRUE
            /\ UNCHANGED <<kzPc, kzNames, kzData>>
       ELSE /\ s.effect /= "invoke"
            /\ kzPc' = kzPc + 1
            /\ kzNames' = kzNames \cup s.binds
            /\ kzStopped' = kzStopped
            /\ kzGraphDocs' = IF s.effect = "convert" THEN GraphDocuments ELSE kzGraphDocs
            /\ kzDb' = IF s.effect = "ingest"
                       THEN AddGraphDocuments(kzDb, kzGraphDocs, TRUE) ELSE kzDb
            /\ kzSchema' = IF s.effect = "refresh" THEN RefreshSchema(kzDb) ELSE kzSchema
            /\ kzChain' = IF s.effect \in {"chain_llm", "chain_separate"}
                          THEN ChainOf(s.effect) ELSE kzChain

\* The notebook was run with OPENAI_API_KEY bound by a cell it does not
\* contain (execution count 5 is missing between counts 4 and 6).
KzUserDefinesKey ==
    /\ ~kzStopped
    /\ kzStage = "idle"
    /\ KzAtCellBoundary
    /\ "OPENAI_API_KEY" \notin kzNames
    /\ kzNames' = kzNames \cup {"OPENAI_API_KEY"}
    /\ UNCHANGED <<kzPc, kzStopped, kzData, kzInvoke, wfVars, nvVars>>

\* chain.invoke(question): "> Entering new KuzuQAChain chain..."
KzEnterChain ==
    /\ ~kzStopped
    /\ kzPc <= KzLen
    /\ kzStage = "idle"
    /\ KuzuStmts[kzPc].effect = "invoke"
    /\ CanRun(KuzuStmts[kzPc], kzNames)
    /\ kzStage' = "entered"
    /\ kzQuestion' = KuzuStmts[kzPc].arg
    /\ kzCypher' = NoCypher
    /\ kzContext' = {}
    /\ kzAnswer' = None
    /\ kzTrace' = <<TraceOrder[1]>>
    /\ UNCHANGED <<kzOut, kzKernel, kzData, wfVars, nvVars>>

\* "Generated Cypher:" and the statement the model wrote.
KzGenerateCypher(c) ==
    /\ kzStage = "entered"
    /\ kzStage' = "generated"
    /\ kzCypher' = c
    /\ kzTrace' = Append(kzTrace, TraceOrder[2])
    /\ UNCHANGED <<kzQuestion, kzContext, kzAnswer, kzOut, kzKernel, kzData, wfVars, nvVars>>

\* "Full Context:" and the rows the statement returns on the graph.
KzExecuteCypher ==
    /\ kzStage = "generated"
    /\ kzStage' = "context"
    /\ kzContext' = Query(kzDb, kzCypher)
    /\ kzTrace' = Append(kzTrace, TraceOrder[3])
    /\ UNCHANGED <<kzQuestion, kzCypher, kzAnswer, kzOut, kzKernel, kzData, wfVars, nvVars>>

\* "> Finished chain.": the answer is there.
KzFinishChain(a) ==
    /\ kzStage = "context"
    /\ kzStage' = "finished"
    /\ kzAnswer' = a
    /\ kzTrace' = Append(kzTrace, TraceOrder[4])
    /\ UNCHANGED <<kzQuestion, kzCypher, kzContext, kzOut, kzKernel, kzData, wfVars, nvVars>>

\* The cell shows the returned value and the next statement is due.
KzReturn ==
    /\ kzStage = "finished"
    /\ kzStage' = "idle"
    /\ kzOut' = [stmt |-> kzPc, value |-> InvokeResult(kzQuestion, kzAnswer)]
    /\ kzPc' = kzPc + 1
    /\ UNCHANGED <<kzNames, kzStopped, kzQuestion, kzCypher, kzContext, kzAnswer, kzTrace,
                   kzData, wfVars, nvVars>>

KzInit ==
    /\ kzPc = 1
    /\ kzNames = {}
    /\ kzStopped = FALSE
    /\ kzGraphDocs = <<>>
    /\ kzDb = EmptyDb
    /\ kzSchema = {}
    /\ kzChain = NoChain
    /\ kzStage = "idle"
    /\ kzQuestion = None
    /\ kzCypher = NoCypher
    /\ kzContext = {}
    /\ kzAnswer = None
    /\ kzTrace = <<>>
    /\ kzOut = NoOut

KzNext ==
    \/ KzRunStmt
    \/ KzUserDefinesKey
    \/ KzEnterChain
    \/ \E c \in GeneratedCyphers : KzGenerateCypher(c)
    \/ KzExecuteCypher
    \/ \E a \in Answers : KzFinishChain(a)
    \/ KzReturn

\* The Novita kernel as it is when another part is studied.
NvQuiet == NvInit /\ nvEnv = Absent

InitWorkflow == WfInit /\ NvQuiet /\ KzInit

InitNovita == WfInit /\ NvInit /\ KzInit

InitKuzu == WfInit /\ NvQuiet /\ KzInit

SpecWorkflow == InitWorkflow /\ [][WfNext]_vars

SpecNovita == InitNovita /\ [][NvNext]_vars

SpecKuzu == InitKuzu /\ [][KzNext]_vars

(***************************************************************************)
(* Properties of the workflow                                              *)
(***************************************************************************)

Triggered(r) == wfRuns[r].state /= "none"

Ran(status) == status \in Outcomes

\* The step that runs the link checker.
LinkCheck == CHOOSE i \in StepIds : Steps[i].cmd = "yarn check-broken-links"

\* C1: the check-links job of a triggered run starts exactly when the
\* repository owner is 'langchain-ai' or the event is not 'schedule': a
\* scheduled trigger in a repository of another owner never starts it, and
\* a workflow_dispatch starts it whatever the owner.
C1_JobRunsIffOwnerOrNotSchedule ==
    \A r \in Runs : Triggered(r) =>
        /\ (wfRuns[r].state /= "skipped")
              <=> (wfRuns[r].owner = "langchain-ai" \/ wfRuns[r].event /= "schedule")
        /\ (wfRuns[r].event = "schedule" /\ wfRuns[r].owner /= "langchain-ai")
              => wfRuns[r].state = "skipped"
        /\ wfRuns[r].event = "workflow_dispatch" => wfRuns[r].state /= "skipped"

\* A fork's scheduled run was skipped and a fork's manual run started.
C1_Witness ==
    /\ \E r \in Runs : /\ wfRuns[r].owner = "jasonhp"
                       /\ wfRuns[r].event = "schedule"
                       /\ wfRuns[r].state = "skipped"
    /\ \E r \in Runs : /\ wfRuns[r].owner = "jasonhp"
                       /\ wfRuns[r].event = "workflow_dispatch"
                       /\ wfRuns[r].state \in {"running", "success", "failure"}

\* C2: the steps are taken in document order (checkout, Node.js setup,
\* yarn install, yarn check-broken-links); a step runs only after every
\* earlier step succeeded; once the link check has run, the job passes
\* exactly when the link check passed; a failing earlier step fails the job
\* and the link check never runs.
C2_StepsInOrderNoMasking ==
    \A r \in Runs : Triggered(r) =>
        LET st == wfRuns[r].steps
            done == wfRuns[r].state \in Outcomes
        IN /\ LinkCheck = NSteps
           /\ \A i \in StepIds : st[i] /= "pending" => \A j \in 1..(i - 1) : st[j] /= "pending"
           /\ \A i \in StepIds : Ran(st[i]) => \A j \in 1..(i - 1) : st[j] = "success"
           /\ Ran(st[LinkCheck]) =>
                 /\ done
                 /\ (wfRuns[r].state = "success") <=> (st[LinkCheck] = "success")
           /\ (\E j \in 1..(LinkCheck - 1) : st[j] = "failure") =>
                 /\ ~Ran(st[LinkCheck])
                 /\ wfRuns[r].state \in {"running", "failure"}
                 /\ done => (wfRuns[r].state = "failure" /\ st[LinkCheck] = "skipped")
           /\ wfRuns[r].state = "success" => \A i \in StepIds : st[i] = "success"

\* One run failed in the link check itself, another in the install step, so
\* that its link check was skipped.
C2_Witness ==
    /\ \E r \in Runs : /\ wfRuns[r].state = "failure"
                       /\ wfRuns[r].steps[LinkCheck] = "failure"
    /\ \E r \in Runs : /\ wfRuns[r].state = "failure"
                       /\ wfRuns[r].steps[LinkCheck - 1] = "failure"
                       /\ wfRuns[r].steps[LinkCheck] = "skipped"

CheckedOut(r) == wfRuns[r].ws /= NoWorkspace

\* C11: a run leaves the repository contents as they were: the token has
\* only contents: read, so no push of a step reaches the repository;
\* --immutable keeps the lockfile of the workspace the repository's; so
\* every run, also one that overlaps another, checks out and keeps the same
\* contents whatever the other run did.
C11_RunsLeaveRepositoryUnchanged ==
    /\ wfRepo = RepoAtStart
    /\ \A r \in Runs : CheckedOut(r) => wfRuns[r].ws = RepoAtStart
    /\ \A r \in Runs : wfRuns[r].state = "skipped" => ~CheckedOut(r)

\* A scheduled run and a manual run overlapped; the first one's script
\* tried to push and was refused, the second one failed in its install
\* step; both hold the contents of the start.
C11_Witness ==
    \E r1, r2 \in Runs :
        /\ r1 /= r2
        /\ wfRuns[r1].event = "schedule"
        /\ wfRuns[r2].event = "workflow_dispatch"
        /\ wfRuns[r2].overlap
        /\ wfRuns[r1].denied
        /\ CheckedOut(r1) /\ CheckedOut(r2)
        /\ wfRuns[r2].state = "failure"
        /\ wfRuns[r2].steps[LinkCheck - 1] = "failure"

(***************************************************************************)
(* Properties of the Novita notebook                                       *)
(***************************************************************************)

\* C6: once the credentials cell has run, NOVITA_API_KEY is in os.environ;
\* a value that was there before the cell ran is left as it was and getpass
\* is not called; however often the cell runs, it prompts at most once and
\* the variable keeps the value it had after the first run.
C6_CredentialsCellSetsKeyOnce ==
    /\ nvCredRuns >= 1 => nvEnv /= Absent
    /\ nvEnv0 /= Absent => (nvEnv = nvEnv0 /\ nvPrompts = 0)
    /\ nvPrompts <= 1
    /\ nvCredRuns >= 1 => nvEnv = nvFirst
    /\ nvCredRuns = 0 => (nvEnv = nvEnv0 /\ nvPrompts = 0)

\* The cell ran three times on a kernel without the variable: one prompt.
C6_Witness ==
    /\ nvCredRuns = 3
    /\ nvEnv0 = Absent
    /\ nvPrompts = 1
    /\ nvEnv = "key-b"

(***************************************************************************)
(* Properties of the Kuzu notebook                                         *)
(***************************************************************************)

Printed(line) == \E i \in 1..Len(kzTrace) : kzTrace[i] = line

IsChunk(v) == v.label = "Chunk"

\* C9: the full context of an invoke is the result of its generated Cypher
\* on the ingested graph: the CEO pattern yields the single node Tim Cook,
\* the headquarters pattern the single node California (and the CEO pattern
\* with RETURN p.id, p.type the single row Tim Cook, entity); no Chunk node
\* is in a result.
C9_FullContextIsQueryResult ==
    Printed("Full Context:") =>
        /\ kzCypher = CypherCEO =>
              /\ kzContext = FullContextCEO
              /\ \A row \in kzContext : ~IsChunk(row.vals[1])
        /\ kzCypher = CypherHQ =>
              /\ kzContext = FullContextHQ
              /\ \A row \in kzContext : ~IsChunk(row.vals[1])
        /\ kzCypher = CypherCEOProps => kzContext = FullContextCEOProps

\* The headquarters pattern has been executed on a graph that holds the
\* Chunk node and its MENTIONS relationship to Apple.
C9_Witness ==
    /\ Printed("Full Context:")
    /\ kzCypher = CypherHQ
    /\ kzContext = FullContextHQ
    /\ \E e \in kzDb.rels : IsChunk(e.src) /\ e.dst.id = "Apple"
    /\ Cardinality(kzDb.nodes) = 4

\* C10: no statement of either notebook, run top to bottom, reads a name
\* that no earlier statement of the notebook has bound.
C10_NoUndefinedName ==
    /\ ~nvStopped
    /\ ~kzStopped

\* The schema printed after refresh_schema() is the schema of the ingested
\* graph.
SchemaAsPrinted ==
    (kzPc <= KzLen /\ kzPc > 1 /\ KuzuStmts[kzPc - 1].effect = "refresh") => kzSchema = PrintedSchema

====
